---- MODULE Spec2Model ----
(***************************************************************************)
(* Model of meteostat/interface/daily.py: the Daily time series class.     *)
(*                                                                         *)
(*   Spec         the per-station loader (_load) driven by _get_data, with *)
(*                the on-disk cache, its time-to-live and a remote archive *)
(*                that grows while the program runs.                       *)
(*   SpecResolve  construction of a Daily object for a Point: the loads of *)
(*                the involved stations, their merge, and _resolve_point.  *)
(*                                                                         *)
(* Numbers.  A cell of a DataFrame is a tuple: <<>> is NaN, <<n>> is the   *)
(* number n / Unit, and <<n, d>> (only between weighted_average and the    *)
(* final round) is the exact quotient n / (d * Unit).  Arithmetic is       *)
(* exact; float64 differs from it only in the last bits.                   *)
(***************************************************************************)
EXTENDS Integers, Sequences, FiniteSets, TLC

VARIABLES
    pc,          \* position of the constructor: idle, loading, loaded, resolved, failed
    _stations,   \* self._stations: the station ids, in request order
    _start,      \* self._start: <<>> (None) or <<day>>
    _end,        \* self._end:   <<>> (None) or <<day>>
    _data,       \* self._data: the DataFrame of the series
    pending,     \* datasets handed to processing_handler and not loaded yet
    results,     \* return value of _load for every dataset loaded so far
    cache,       \* the cache directory: station -> pickle file (or none)
    remote,      \* the bulk endpoint: station -> the rows it serves now
    now,         \* wall clock (time.time())
    max_age,     \* self.max_age
    autoclean,   \* self.autoclean
    log,         \* per station: what the last _load of this construction did
    point,       \* arguments of the last _resolve_point call
    unresolved,  \* self._data as it was when _resolve_point was entered
    adjusted     \* the local `data` of _resolve_point right after adjust_temp

vars == <<pc, _stations, _start, _end, _data, pending, results, cache, remote,
          now, max_age, autoclean, log, point, unresolved, adjusted>>

---------------------------------------------------------------------------
(* Bounds of the model *)

\* Days on which the tables of SpecResolve may hold rows: 1 .. MaxDay.
MaxDay == 2
\* Last day the remote archive of Spec publishes.
LastDay == 2
\* The clock of Spec runs from 0 to MaxTime.
MaxTime == 2
\* The positive time-to-live Spec tries (0, caching disabled, is always tried).
MaxAge == 2
\* Station scores are 1 .. MaxScore.
MaxScore == 2

---------------------------------------------------------------------------
(* Numbers *)

\* Cells are kept in units of 1/300: hundredths of the inputs (/100) and the
\* lapse-rate factor 2/3 of adjust_temp (/3) are both whole numbers of units.
Unit == 3 * 100

NaN == <<>>

\* h hundredths as a cell: Val(1004) is 10.04
Val(h) == <<h * (Unit \div 100)>>

IsNaN(v) == v = NaN

\* IEEE 754 / numpy: x != NaN is True for every x, NaN included.
NeNaN(v) == TRUE

\* float addition: NaN if either operand is NaN
Add(v, w) == IF IsNaN(v) \/ IsNaN(w) THEN NaN ELSE <<v[1] + w[1]>>

\* Nearest integer to a / b (b > 0), ties to the even neighbour (numpy.round).
RoundHalfEven(a, b) ==
    LET f == a \div b
        r == a % b
    IN  IF 2 * r < b THEN f
        ELSE IF 2 * r > b THEN f + 1
        ELSE IF f % 2 = 0 THEN f ELSE f + 1

\* Series.round(1): NaN stays NaN, a number goes to the nearest tenth.
Round1(v) ==
    IF IsNaN(v) THEN NaN
    ELSE LET d == IF Len(v) = 2 THEN v[2] ELSE 1
         IN  <<(Unit \div 10) * RoundHalfEven(v[1], d * (Unit \div 10))>>

---------------------------------------------------------------------------
(* Schema *)

\* Daily._columns
Columns == <<"date", "tavg", "tmin", "tmax", "prcp", "snow",
             "wdir", "wspd", "wpgt", "pres", "tsun">>

\* [*self._types]: the keys of Daily._types, in order
Types == <<"tavg", "tmin", "tmax", "prcp", "snow",
           "wdir", "wspd", "wpgt", "pres", "tsun">>

Range(seq) == {seq[i] : i \in 1..Len(seq)}

\* A DataFrame: its value columns and its rows; a row holds its index levels
\* (station, time) and one cell per column.
Frame(cols, rows) == [columns |-> cols, rows |-> rows]

\* pd.DataFrame(columns=[*self._types])
EmptyDataFrame == Frame(Types, <<>>)

\* DataFrame.size: rows times columns
Size(df) == Len(df.rows) * Len(df.columns)

---------------------------------------------------------------------------
(* Stations and the rows the endpoint serves *)

StationIds == <<"10637", "10635">>

Stations == Range(StationIds)

\* Position of a station in StationIds
Idx(s) == CHOOSE i \in 1..Len(StationIds) : StationIds[i] = s

\* A row with every variable present and given to one decimal place.
FullRow(i, t) ==
    [time |-> t,
     tavg |-> Val(1000 + 110 * (i - 1) + 100 * (t - 1)),
     tmin |-> Val(500 + 130 * (i - 1)),
     tmax |-> Val(1500 + 100 * (i - 1)),
     prcp |-> Val(120 * (2 - i)),
     snow |-> Val(1000 * (i - 1)),
     wdir |-> Val(35000 - 34000 * (i - 1)),
     wspd |-> Val(1250 - 450 * (i - 1)),
     wpgt |-> Val(3000 - 460 * (i - 1)),
     pres |-> Val(101320 - 130 * (i - 1)),
     tsun |-> Val(12000 - 6000 * (i - 1))]

\* A row with gaps (NaN) and with values the source gives to two decimals.
PartialRow(i, t) ==
    [time |-> t,
     tavg |-> NaN,
     tmin |-> Val(504 + 130 * (i - 1)),
     tmax |-> Val(1500 + 100 * (i - 1) + 100 * (t - 1)),
     prcp |-> NaN,
     snow |-> Val(1000 * (i - 1)),
     wdir |-> NaN,
     wspd |-> Val(1254 - 450 * (i - 1)),
     wpgt |-> NaN,
     pres |-> Val(101325 - 130 * (i - 1)),
     tsun |-> NaN]

RowKinds == {"full", "partial"}

RawRow(s, t, kind) ==
    IF kind = "full" THEN FullRow(Idx(s), t) ELSE PartialRow(Idx(s), t)

\* What the endpoint serves for station s once days 1 .. k are published.
Archive(s, k) == Frame(Types, [t \in 1..k |-> RawRow(s, t, "full")])

---------------------------------------------------------------------------
(* Optional dates: None is <<>>, a date is <<day>> *)

None == <<>>

Truthy(d) == d # None

---------------------------------------------------------------------------
(* Collaborators of _load *)

\* A file of the cache directory.
NoFile == [exists |-> FALSE, df |-> Frame(<<>>, <<>>), mtime |-> 0]

File(df, t) == [exists |-> TRUE, df |-> df, mtime |-> t]

\* meteostat.core.cache.file_in_cache: the file exists and is younger than max_age
file_in_cache(entry, t, age) == entry.exists /\ t - entry.mtime < age

\* meteostat.utilities.validations.validate_series: the fetched rows, keyed by
\* (station, time).  Whether the rows pass is the collaborator's decision.
validate_series(df, station) ==
    Frame(df.columns,
          [i \in 1..Len(df.rows) |->
              [c \in DOMAIN df.rows[i] \cup {"station"} |->
                  IF c = "station" THEN station ELSE df.rows[i][c]]])

\* Base.clear_cache: the files older than max_age are removed
clear_cache(files, t, age) ==
    [s \in DOMAIN files |->
        IF files[s].exists /\ t - files[s].mtime > age THEN NoFile ELSE files[s]]

\* What the collaborators of one _load call do when they are reached:
\* load_handler and validate_series succeed, load_handler fails
\* (DataUnavailable), or validate_series rejects the rows (SchemaInvalid).
Outcomes == {"ok", "unavailable", "invalid"}

---------------------------------------------------------------------------
(* Daily._load *)

\* Line 108: the cached file is used.  (UseCacheNever: the test on max_age
\* turned round, so that the cache is never read.)
UseCacheNever(entry, t, age) == age < 0 /\ file_in_cache(entry, t, age)
UseCache(entry, t, age) == age > 0 /\ file_in_cache(entry, t, age)

\* Lines 126-128: df.to_pickle(path) if caching is enabled.  (ToPickleAlways:
\* the test on max_age left out.)
ToPickleAlways(entry, df, t, age) == File(df, t)
ToPickle(entry, df, t, age) == IF age > 0 THEN File(df, t) ELSE entry

\* Lines 130-140: the rows of the period, if both ends of it are set.
\* (FilterPeriodOpen: time > start in place of time >= start.)
FilterPeriodOpen(df, start, end) ==
    IF Truthy(start) /\ Truthy(end)
    THEN Frame(df.columns,
               SelectSeq(df.rows, LAMBDA r : r.time > start[1] /\ r.time <= end[1]))
    ELSE df
FilterPeriod(df, start, end) ==
    IF Truthy(start) /\ Truthy(end)
    THEN Frame(df.columns,
               SelectSeq(df.rows, LAMBDA r : r.time >= start[1] /\ r.time <= end[1]))
    ELSE df

\* One call of _load.  entry is the station's cache file and raw the rows the
\* endpoint serves when the call is made; outcome is what the collaborators do
\* if they are reached.  The result tells whether the call raised, what it
\* returned, the local df as it reached line 130, the cache file the call leaves,
\* and which collaborators it called.  (LoadFilteringFirst: the fetched table
\* filtered before it is pickled.)
LoadFilteringFirst(station, entry, raw, outcome, t, age, start, end) ==
    IF UseCache(entry, t, age)
    THEN [raised |-> FALSE, df |-> entry.df,
          ret |-> FilterPeriod(entry.df, start, end), entry |-> entry,
          fetched |-> FALSE, validated |-> FALSE, wrote |-> FALSE]
    ELSE IF outcome = "unavailable"
    THEN [raised |-> TRUE, df |-> Frame(<<>>, <<>>),
          ret |-> Frame(<<>>, <<>>), entry |-> entry,
          fetched |-> TRUE, validated |-> FALSE, wrote |-> FALSE]
    ELSE IF outcome = "invalid"
    THEN [raised |-> TRUE, df |-> Frame(<<>>, <<>>),
          ret |-> Frame(<<>>, <<>>), entry |-> entry,
          fetched |-> TRUE, validated |-> TRUE, wrote |-> FALSE]
    ELSE LET df == FilterPeriod(validate_series(raw, station), start, end)
         IN  [raised |-> FALSE, df |-> df, ret |-> df,
              entry |-> ToPickle(entry, df, t, age),
              fetched |-> TRUE, validated |-> TRUE, wrote |-> age > 0]
_load(station, entry, raw, outcome, t, age, start, end) ==
    IF UseCache(entry, t, age)
    THEN \* lines 110-111: read the pickle; no fetch, no validation, no write
         [raised |-> FALSE, df |-> entry.df,
          ret |-> FilterPeriod(entry.df, start, end), entry |-> entry,
          fetched |-> FALSE, validated |-> FALSE, wrote |-> FALSE]
    ELSE IF outcome = "unavailable"
    THEN \* lines 116-121: load_handler raises; nothing after it runs
         [raised |-> TRUE, df |-> Frame(<<>>, <<>>),
          ret |-> Frame(<<>>, <<>>), entry |-> entry,
          fetched |-> TRUE, validated |-> FALSE, wrote |-> FALSE]
    ELSE IF outcome = "invalid"
    THEN \* line 124: validate_series raises; to_pickle is not reached
         [raised |-> TRUE, df |-> Frame(<<>>, <<>>),
          ret |-> Frame(<<>>, <<>>), entry |-> entry,
          fetched |-> TRUE, validated |-> TRUE, wrote |-> FALSE]
    ELSE LET df == validate_series(raw, station)
         IN  [raised |-> FALSE, df |-> df, ret |-> FilterPeriod(df, start, end),
              entry |-> ToPickle(entry, df, t, age),
              fetched |-> TRUE, validated |-> TRUE, wrote |-> age > 0]

---------------------------------------------------------------------------
(* DataFrame operations used by _resolve_point *)

\* A whole number (metres of elevation, a score) as a cell
Num(x) == <<x * Unit>>

\* The fields of row r named in keep, and nothing else
Restrict(r, keep) == [c \in DOMAIN r \cap keep |-> r[c]]

\* df.join(stations[cols], on='station'): a left join; a station without an
\* entry in stations gets NaN in the joined columns.
Join(df, stations, cols) ==
    Frame(df.columns \o cols,
          [i \in 1..Len(df.rows) |->
              LET r == df.rows[i]
              IN  [c \in DOMAIN r \cup Range(cols) |->
                      IF c \in DOMAIN r THEN r[c]
                      ELSE IF r.station \in DOMAIN stations
                      THEN stations[r.station][c] ELSE NaN]])

\* df.drop(cols, axis=1)
Drop(df, cols) ==
    Frame(SelectSeq(df.columns, LAMBDA c : c \notin cols),
          [i \in 1..Len(df.rows) |->
              Restrict(df.rows[i], DOMAIN df.rows[i] \ cols)])

\* df.round(1): every value column, index levels untouched
Round(df) ==
    Frame(df.columns,
          [i \in 1..Len(df.rows) |->
              [c \in DOMAIN df.rows[i] |->
                  IF c \in Range(df.columns) THEN Round1(df.rows[i][c])
                  ELSE df.rows[i][c]]])

Times(df) == {df.rows[i].time : i \in 1..Len(df.rows)}

Min(S) == CHOOSE x \in S : \A y \in S : x <= y

Max(S) == CHOOSE x \in S : \A y \in S : x >= y

\* pd.Grouper(level='time', freq='1D'): one bucket per day from the first to the
\* last day of the table, days without rows included, in time order.
Buckets(df) ==
    IF Len(df.rows) = 0 THEN <<>>
    ELSE [i \in 1..(Max(Times(df)) - Min(Times(df)) + 1) |-> Min(Times(df)) + i - 1]

\* The rows of one bucket, in the order of the table
Group(df, t) == SelectSeq(df.rows, LAMBDA r : r.time = t)

\* GroupBy.first for one column of one group: the first entry that is not
\* null; NaN if there is none.
First(rows, c) ==
    LET present == SelectSeq(rows, LAMBDA r : ~IsNaN(r[c]))
    IN  IF Len(present) = 0 THEN NaN ELSE present[1][c]

\* df.groupby(pd.Grouper(level='time', freq=self._freq)).agg('first')
AggFirst(df) ==
    LET b == Buckets(df)
    IN  Frame(df.columns,
              [i \in 1..Len(b) |->
                  LET g == Group(df, b[i])
                  IN  [c \in Range(df.columns) \cup {"time"} |->
                          IF c = "time" THEN b[i] ELSE First(g, c)]])

RECURSIVE SumSeq(_)
SumSeq(q) == IF Len(q) = 0 THEN 0 ELSE q[1] + SumSeq(Tail(q))

\* meteostat.utilities.aggregations.weighted_average for one column of one
\* group: the mean weighted by score over the rows whose value (and weight)
\* is present; NaN if there is none.
WeightedMean(rows, c) ==
    LET used == SelectSeq(rows, LAMBDA r : ~IsNaN(r[c]) /\ ~IsNaN(r.score))
        num == SumSeq([i \in 1..Len(used) |-> used[i].score[1] * used[i][c][1]])
        den == SumSeq([i \in 1..Len(used) |-> used[i].score[1]])
    IN  IF den = 0 THEN NaN ELSE <<num, den>>

\* weighted_average(step): one row, every column averaged
weighted_average(rows, cols) == [c \in Range(cols) |-> WeightedMean(rows, c)]

\* df.groupby(pd.Grouper(level='time', freq=self._freq)).apply(weighted_average)
\* followed by data.index.droplevel(1)
ApplyWeightedAverage(df) ==
    LET b == Buckets(df)
    IN  Frame(df.columns,
              [i \in 1..Len(b) |->
                  LET w == weighted_average(Group(df, b[i]), df.columns)
                  IN  [c \in Range(df.columns) \cup {"time"} |->
                          IF c = "time" THEN b[i] ELSE w[c]]])

\* data['wdir'] = excluded: assignment of a Series aligned on the time index
SetColumn(df, c, series) ==
    Frame(df.columns,
          [i \in 1..Len(df.rows) |->
              LET at == SelectSeq(series.rows, LAMBDA r : r.time = df.rows[i].time)
              IN  [df.rows[i] EXCEPT ![c] = IF Len(at) = 0 THEN NaN ELSE at[1][c]]])

\* Lines 236-239: the placeholder station id, and the index (station, time)
Placeholder == "XXXXX"

SetPlaceholder(df) ==
    Frame(df.columns,
          [i \in 1..Len(df.rows) |->
              [c \in DOMAIN df.rows[i] \cup {"station"} |->
                  IF c = "station" THEN Placeholder ELSE df.rows[i][c]]])

---------------------------------------------------------------------------
(* Daily._resolve_point *)

\* (2 / 3) * ((data['elevation'] - alt) / 100) for one row
Lapse(elevation, alt) ==
    IF IsNaN(elevation) THEN NaN
    ELSE <<(2 * (elevation[1] - alt * Unit)) \div (3 * 100)>>

\* Lines 173-185.  (adjust_temp_zero_fill: a missing temperature taken as 0.)
adjust_temp_zero_fill(df, alt) ==
    Frame(df.columns,
          [i \in 1..Len(df.rows) |->
              LET r == df.rows[i]
                  z(v) == IF IsNaN(v) THEN Num(0) ELSE v
              IN  [r EXCEPT !.tavg = Add(z(r.tavg), Lapse(r.elevation, alt)),
                            !.tmin = Add(z(r.tmin), Lapse(r.elevation, alt)),
                            !.tmax = Add(z(r.tmax), Lapse(r.elevation, alt))]])
adjust_temp(df, alt) ==
    Frame(df.columns,
          [i \in 1..Len(df.rows) |->
              LET r == df.rows[i]
                  adj(v) == IF NeNaN(v) THEN Add(v, Lapse(r.elevation, alt)) ELSE v
              IN  [r EXCEPT !.tavg = adj(r.tavg),
                            !.tmin = adj(r.tmin),
                            !.tmax = adj(r.tmax)]])

\* Lines 187-206.  The result holds the aggregated table and the local `data`
\* as it was handed to groupby.
Nearest(df, stations, alt, adapt_temp) ==
    LET temp == adjust_temp(Join(df, stations, <<"elevation">>), alt)
        data == IF adapt_temp THEN Round(Drop(temp, {"elevation"})) ELSE df
    IN  [data |-> AggFirst(data),
         adjusted |-> IF adapt_temp THEN temp ELSE df]

\* Lines 208-234.  (WeightedRoundingFirst: the rows rounded before they are
\* averaged.)
WeightedRoundingFirst(df, stations, alt, adapt_temp) ==
    LET joined == Join(df, stations, <<"score", "elevation">>)
        data == IF adapt_temp THEN adjust_temp(joined, alt) ELSE joined
        rounded == Round(Drop(data, {"score"}))
        back == Frame(data.columns,
                      [i \in 1..Len(data.rows) |->
                          [c \in DOMAIN data.rows[i] |->
                              IF c = "score" THEN data.rows[i][c]
                              ELSE rounded.rows[i][c]]])
        excluded == AggFirst(Frame(<<"wdir">>, back.rows))
        averaged == ApplyWeightedAverage(back)
    IN  [data |-> Round(Drop(SetColumn(averaged, "wdir", excluded),
                             {"score", "elevation"})),
         adjusted |-> data]
Weighted(df, stations, alt, adapt_temp) ==
    LET joined == Join(df, stations, <<"score", "elevation">>)
        data == IF adapt_temp THEN adjust_temp(joined, alt) ELSE joined
        excluded == AggFirst(Frame(<<"wdir">>, data.rows))
        averaged == ApplyWeightedAverage(data)
    IN  [data |-> Round(Drop(SetColumn(averaged, "wdir", excluded),
                             {"score", "elevation"})),
         adjusted |-> data]

\* _resolve_point as a function of the object's state and its arguments: the
\* state it leaves, and the local `data` after the temperature adjustment.
_resolve_point(df, ids, method, stations, alt, adapt_temp) ==
    IF Len(ids) = 0 \/ Size(df) = 0
    THEN [data |-> df, stations |-> ids, adjusted |-> df]
    ELSE LET r == IF method = "nearest"
                  THEN Nearest(df, stations, alt, adapt_temp)
                  ELSE Weighted(df, stations, alt, adapt_temp)
         IN  [data |-> SetPlaceholder(r.data),
              stations |-> <<Placeholder>>,
              adjusted |-> r.adjusted]

---------------------------------------------------------------------------
(* Daily._get_data *)

RECURSIVE ConcatRows(_, _)
ConcatRows(ids, res) ==
    IF Len(ids) = 0 THEN <<>>
    ELSE res[Head(ids)].rows \o ConcatRows(Tail(ids), res)

\* meteostat.core.loader.processing_handler: the frames the loads returned,
\* concatenated in the order of the datasets
processing_handler(ids, res) == Frame(Types, ConcatRows(ids, res))

\* Lines 142-157.  (get_data_without_columns: pd.DataFrame() for no station.)
get_data_without_columns(ids, res) ==
    IF Len(ids) > 0 THEN processing_handler(ids, res) ELSE Frame(<<>>, <<>>)
_get_data(ids, res) ==
    IF Len(ids) > 0 THEN processing_handler(ids, res) ELSE EmptyDataFrame

---------------------------------------------------------------------------
(* Inputs *)

\* A list of distinct station ids, the empty list included
StationLists ==
    {q \in UNION {[1..n -> Stations] : n \in 0..Len(StationIds)} :
        \A i, j \in 1..Len(q) : i # j => q[i] # q[j]}

\* The rows an endpoint may serve for station s within days 1 .. MaxDay: for
\* every day no row, a full row or a partial row; rows in time order.
Series(s, kinds) ==
    LET days == SelectSeq([t \in 1..MaxDay |-> t], LAMBDA t : kinds[t] # "absent")
    IN  Frame(Types, [i \in 1..Len(days) |-> RawRow(s, days[i], kinds[days[i]])])

SeriesOf(s) == {Series(s, k) : k \in [1..MaxDay -> RowKinds \cup {"absent"}]}

\* Elevation of the stations, in metres
Elevation == [s \in Stations |-> IF Idx(s) = 1 THEN 500 ELSE 100]

\* Altitudes of the points asked for, in metres
Alts == {100, 400}

\* The stations frames _resolve_point may be handed: score and elevation of
\* some of the stations.  A station that has no entry and a station whose
\* entry is null are the same to the join.
Metas ==
    UNION {{[s \in S |-> [score |-> Num(k[s]), elevation |-> Num(Elevation[s])]] :
               k \in [S -> 1..MaxScore]} : S \in SUBSET Stations}

\* Point.get_stations lists the stations by decreasing score
ByScore(ids, stations) ==
    \A i, j \in 1..Len(ids) :
        (i < j /\ ids[i] \in DOMAIN stations /\ ids[j] \in DOMAIN stations)
            => stations[ids[i]].score[1] >= stations[ids[j]].score[1]

Methods == {"nearest", "weighted"}

Dates(last) == {None} \cup {<<d>> : d \in 1..last}

NotRun == [ran |-> FALSE, at |-> 0, before |-> NoFile, after |-> NoFile,
           outcome |-> "ok",
           df |-> Frame(<<>>, <<>>),
           raised |-> FALSE, fetched |-> FALSE, validated |-> FALSE, wrote |-> FALSE]

NoPoint == [called |-> FALSE, method |-> "nearest", alt |-> 0, adapt_temp |-> FALSE,
            stations |-> <<>>, ids |-> <<>>]

Unset == Frame(<<>>, <<>>)

---------------------------------------------------------------------------
(* Actions *)

\* Daily.__init__, lines 250-269: a new object for a list of stations and a
\* period; its loads are then scheduled by _get_data.
Construct ==
    /\ pc = "idle"
    /\ \E ids \in StationLists, s \in Dates(LastDay), e \in Dates(LastDay) :
        /\ _stations' = ids
        /\ _start' = s
        /\ _end' = e
        /\ pending' = Range(ids)
    /\ pc' = "loading"
    /\ UNCHANGED <<_data, results, cache, remote, now, max_age, autoclean, log,
                   point, unresolved, adjusted>>

\* One call of _load by a worker of processing_handler.  A call that raises
\* ends the construction.
Load(s) ==
    /\ pc = "loading"
    /\ s \in pending
    /\ \E outcome \in Outcomes :
        \E r \in {_load(s, cache[s], remote[s], outcome, now, max_age, _start, _end)} :
            /\ cache' = [cache EXCEPT ![s] = r.entry]
            /\ log' = [log EXCEPT ![s] =
                          [ran |-> TRUE, at |-> now, before |-> cache[s],
                           after |-> r.entry,
                           outcome |-> IF r.fetched THEN outcome ELSE "ok",
                           df |-> r.df,
                           raised |-> r.raised, fetched |-> r.fetched,
                           validated |-> r.validated, wrote |-> r.wrote]]
            /\ pending' = pending \ {s}
            /\ IF r.raised
               THEN pc' = "failed" /\ results' = results
               ELSE pc' = pc /\ results' = (s :> r.ret) @@ results
    /\ UNCHANGED <<_stations, _start, _end, _data, remote, now, max_age, autoclean,
                   point, unresolved, adjusted>>

\* Lines 271-280: every load has returned, _get_data returns the table, and
\* the constructor clears the cache if it is asked to.  (For a Point the
\* resolution of line 276 comes before the clearing; SpecResolve runs without
\* a cache, where the clearing is skipped.)
GetData ==
    /\ pc = "loading"
    /\ pending = {}
    /\ _data' = _get_data(_stations, results)
    /\ cache' = IF max_age > 0 /\ autoclean THEN clear_cache(cache, now, max_age)
                ELSE cache
    /\ pc' = "loaded"
    /\ UNCHANGED <<_stations, _start, _end, pending, results, remote,
                   now, max_age, autoclean, log, point, unresolved, adjusted>>

\* The object is dropped (or its construction has failed); the cache
\* directory stays.
Discard ==
    /\ pc \in {"loaded", "failed"}
    /\ pc' = "idle"
    /\ _stations' = <<>>
    /\ _start' = None
    /\ _end' = None
    /\ _data' = Unset
    /\ pending' = {}
    /\ results' = <<>>
    /\ log' = [s \in Stations |-> NotRun]
    /\ UNCHANGED <<cache, remote, now, max_age, autoclean, point, unresolved, adjusted>>

\* Lines 275-276: the object was built for a Point
ResolvePoint ==
    /\ pc = "loaded"
    /\ \E method \in Methods, stations \in Metas, alt \in Alts, adapt_temp \in BOOLEAN :
        /\ ByScore(_stations, stations)
        /\ \E r \in {_resolve_point(_data, _stations, method, stations, alt, adapt_temp)} :
               /\ _data' = r.data
               /\ _stations' = r.stations
               /\ adjusted' = r.adjusted
        /\ point' = [called |-> TRUE, method |-> method, alt |-> alt,
                     adapt_temp |-> adapt_temp, stations |-> stations,
                     ids |-> _stations]
    /\ unresolved' = _data
    /\ pc' = "resolved"
    /\ UNCHANGED <<_start, _end, pending, results, cache, remote, now, max_age,
                   autoclean, log>>

\* Time passes
Tick ==
    /\ now < MaxTime
    /\ now' = now + 1
    /\ UNCHANGED <<pc, _stations, _start, _end, _data, pending, results, cache,
                   remote, max_age, autoclean, log, point, unresolved, adjusted>>

\* The endpoint publishes one more day for every station
Publish ==
    /\ \E k \in 1..(LastDay - 1) :
        /\ \A s \in Stations : remote[s] = Archive(s, k)
        /\ remote' = [s \in Stations |-> Archive(s, k + 1)]
    /\ UNCHANGED <<pc, _stations, _start, _end, _data, pending, results, cache,
                   now, max_age, autoclean, log, point, unresolved, adjusted>>

---------------------------------------------------------------------------
(* Specifications *)

Init ==
    /\ pc = "idle"
    /\ _stations = <<>>
    /\ _start = None
    /\ _end = None
    /\ _data = Unset
    /\ pending = {}
    /\ results = <<>>
    /\ cache = [s \in Stations |-> NoFile]
    /\ remote = [s \in Stations |-> Archive(s, LastDay - 1)]
    /\ now = 0
    /\ max_age \in {0, MaxAge}
    /\ autoclean \in BOOLEAN
    /\ log = [s \in Stations |-> NotRun]
    /\ point = NoPoint
    /\ unresolved = Unset
    /\ adjusted = Unset

Next ==
    \/ Construct
    \/ \E s \in Stations : Load(s)
    \/ GetData
    \/ Discard
    \/ Tick
    \/ Publish

Spec == Init /\ [][Next]_vars

\* A Daily object for a Point, right after lines 250-269: the involved
\* stations are set, no period is asked for, caching is disabled.
InitResolve ==
    /\ pc = "loading"
    /\ _stations \in StationLists
    /\ _start = None
    /\ _end = None
    /\ _data = Unset
    /\ pending = Range(_stations)
    /\ results = <<>>
    /\ cache = [s \in Stations |-> NoFile]
    /\ remote \in {f \in [Stations -> UNION {SeriesOf(s) : s \in Stations}] :
                      \A s \in Stations :
                          IF s \in Range(_stations) THEN f[s] \in SeriesOf(s)
                          ELSE f[s] = Series(s, [t \in 1..MaxDay |-> "absent"])}
    /\ now = 0
    /\ max_age = 0
    /\ autoclean = TRUE
    /\ log = [s \in Stations |-> NotRun]
    /\ point = NoPoint
    /\ unresolved = Unset
    /\ adjusted = Unset

NextResolve == (\E s \in Stations : Load(s)) \/ GetData \/ ResolvePoint

SpecResolve == InitResolve /\ [][NextResolve]_vars

---------------------------------------------------------------------------
(* Properties of the loader, checked under Spec *)

\* The station's cache file was present and younger than max_age when its
\* load of this construction was made.
FreshAtLoad(s) ==
    /\ max_age > 0
    /\ log[s].before.exists
    /\ log[s].at - log[s].before.mtime < max_age

\* The rows of df whose time lies in the closed period [lo, hi]
RowsWithin(df, lo, hi) == SelectSeq(df.rows, LAMBDA r : lo <= r.time /\ r.time <= hi)

\* The rows a load has to return from the table df
Requested(df) ==
    IF Truthy(_start) /\ Truthy(_end) THEN RowsWithin(df, _start[1], _end[1]) ELSE df.rows

\* C1  Cache-hit purity: a load that finds a cache file younger than max_age
\* (max_age > 0) calls neither load_handler nor validate_series, leaves the
\* cache file as it is, and returns rows of the cached table only.
C1_CacheHitPurity ==
    \A s \in Stations :
        (log[s].ran /\ FreshAtLoad(s)) =>
            /\ ~log[s].fetched
            /\ ~log[s].validated
            /\ ~log[s].wrote
            /\ log[s].after = log[s].before
            /\ pc = "loading" => cache[s] = log[s].before
            /\ s \in DOMAIN results
            /\ results[s].rows = Requested(log[s].before.df)

\* A load answered from a fresh cache file while the endpoint already serves
\* more rows than the file holds.
C1_Witness ==
    \E s \in Stations :
        /\ log[s].ran
        /\ FreshAtLoad(s)
        /\ s \in DOMAIN results
        /\ Len(remote[s].rows) > Len(log[s].before.df.rows)
        /\ Len(results[s].rows) > 0

\* C2  Invalid data is never cached: a load changes the station's cache file
\* only if load_handler and validate_series both succeeded and max_age > 0;
\* a load whose fetch or validation failed leaves the file as it was.
C2_InvalidNeverCached ==
    \A s \in Stations :
        log[s].ran =>
            /\ (log[s].wrote \/ log[s].after # log[s].before) =>
                   /\ log[s].fetched
                   /\ log[s].validated
                   /\ log[s].outcome = "ok"
                   /\ max_age > 0
            /\ log[s].raised => (log[s].after = log[s].before /\ cache[s] = log[s].before)

\* A validation failure met while an expired cache file existed.
C2_Witness ==
    \E s \in Stations :
        /\ log[s].ran
        /\ log[s].outcome = "invalid"
        /\ log[s].raised
        /\ max_age > 0
        /\ log[s].before.exists
        /\ cache[s].exists

\* C3  Caching precedes filtering: a cache file always holds a full validated
\* table of the endpoint, never a filtered one; a load that finds the file
\* fresh does not fetch; and with caching enabled every load returns exactly
\* the rows of the cached full table that lie in its own period.
C3_CachingPrecedesFiltering ==
    \A s \in Stations :
        /\ cache[s].exists =>
               \E k \in 1..LastDay : cache[s].df = validate_series(Archive(s, k), s)
        /\ (log[s].ran /\ log[s].fetched) => ~FreshAtLoad(s)
        /\ (log[s].ran /\ ~log[s].raised /\ max_age > 0) =>
               /\ log[s].after.exists
               /\ pc = "loading" => cache[s] = log[s].after
               /\ results[s].rows = Requested(log[s].after.df)

\* A load with a period, answered from the cache without a fetch, that
\* returns some but not all rows of the cached table.
C3_Witness ==
    \E s \in Stations :
        /\ log[s].ran
        /\ ~log[s].fetched
        /\ Truthy(_start)
        /\ Truthy(_end)
        /\ s \in DOMAIN results
        /\ Len(results[s].rows) > 0
        /\ Len(results[s].rows) < Len(log[s].after.df.rows)

\* C8  The period filter: with start and end both given, a load returns
\* exactly the rows of its table with start <= time <= end, of whatever
\* station, and filtering the returned table again changes nothing.
C8_FilterExactIdempotent ==
    \A s \in DOMAIN results :
        (Truthy(_start) /\ Truthy(_end)) =>
            /\ results[s].rows = RowsWithin(log[s].df, _start[1], _end[1])
            /\ results[s].columns = log[s].df.columns
            /\ FilterPeriod(results[s], _start, _end) = results[s]

\* A filter that kept a row at each end of the period and dropped a row.
C8_Witness ==
    \E s \in DOMAIN results :
        /\ Truthy(_start)
        /\ Truthy(_end)
        /\ \E i \in 1..Len(results[s].rows) : results[s].rows[i].time = _start[1]
        /\ \E i \in 1..Len(results[s].rows) : results[s].rows[i].time = _end[1]
        /\ Len(results[s].rows) < Len(log[s].df.rows)

---------------------------------------------------------------------------
(* Properties of the point resolution, checked under SpecResolve *)

\* _resolve_point has run on a state with stations and rows
Resolved ==
    /\ pc = "resolved"
    /\ point.called
    /\ Len(point.ids) > 0
    /\ Size(unresolved) > 0

\* Every station with rows has an entry in the stations frame
AllKnown ==
    \A i \in 1..Len(unresolved.rows) :
        unresolved.rows[i].station \in DOMAIN point.stations

Temps == {"tavg", "tmin", "tmax"}

HasRow(s, t) ==
    \E i \in 1..Len(unresolved.rows) :
        unresolved.rows[i].station = s /\ unresolved.rows[i].time = t

RowOf(s, t) ==
    unresolved.rows[CHOOSE i \in 1..Len(unresolved.rows) :
                        unresolved.rows[i].station = s /\ unresolved.rows[i].time = t]

\* Elevation (metres) and score of a station, as whole numbers
ElevationOf(s) == point.stations[s].elevation[1] \div Unit

ScoreOf(s) == point.stations[s].score[1] \div Unit

\* T + (2/3) * ((E_s - alt) / 100) for a temperature T of station s
Shifted(T, s) == <<T[1] + (2 * Unit * (ElevationOf(s) - point.alt)) \div (3 * 100)>>

\* The value of column c of row r that enters the aggregation
Corrected(r, c) ==
    IF point.adapt_temp /\ c \in Temps /\ ~IsNaN(r[c]) THEN Shifted(r[c], r.station) ELSE r[c]

\* The involved stations, in order, that have a row in bucket t
PresentIn(t) == SelectSeq(point.ids, LAMBDA s : HasRow(s, t))

\* C4  Nearest method: every variable of every bucket is the value of the
\* first station, in the order of the involved stations, that has a row in
\* the bucket; taken as it is even when missing, never from another station.
\* (Compared to one decimal place, after the temperature correction.)
C4_NearestVerbatim ==
    (Resolved /\ point.method = "nearest" /\ AllKnown) =>
        \A i \in 1..Len(_data.rows) :
            LET o == _data.rows[i]
                present == PresentIn(o.time)
            IN  Len(present) > 0 =>
                    \A c \in Range(Types) :
                        Round1(o[c]) = Round1(Corrected(RowOf(present[1], o.time), c))

\* C5  Weighted method: every variable but wdir of every bucket is the mean,
\* weighted by score, over the stations whose (corrected) value of that
\* variable in the bucket is present, to one decimal place; NaN if there is
\* none.  Two stations of equal score with both values present give the
\* arithmetic mean of the two.
C5_WeightedMean ==
    (Resolved /\ point.method = "weighted" /\ AllKnown) =>
        \A i \in 1..Len(_data.rows) :
            \A c \in Range(Types) \ {"wdir"} :
                LET o == _data.rows[i]
                    with == SelectSeq(PresentIn(o.time),
                                LAMBDA s : ~IsNaN(RowOf(s, o.time)[c]))
                    val(k) == Corrected(RowOf(with[k], o.time), c)[1]
                    num == SumSeq([k \in 1..Len(with) |-> ScoreOf(with[k]) * val(k)])
                    den == SumSeq([k \in 1..Len(with) |-> ScoreOf(with[k])])
                IN  /\ o[c] = IF Len(with) = 0 THEN NaN ELSE Round1(<<num, den>>)
                    /\ (Len(with) = 2 /\ ScoreOf(with[1]) = ScoreOf(with[2])) =>
                           o[c] = Round1(<<val(1) + val(2), 2>>)

\* A weighted resolution of two stations of equal score with a bucket where
\* both report tavg and a bucket where only one of them reports it.
C5_Witness ==
    /\ Resolved
    /\ point.method = "weighted"
    /\ AllKnown
    /\ Len(point.ids) = 2
    /\ Range(point.ids) \subseteq DOMAIN point.stations
    /\ ScoreOf(point.ids[1]) = ScoreOf(point.ids[2])
    /\ \E t \in 1..MaxDay :
        /\ HasRow(point.ids[1], t) /\ ~IsNaN(RowOf(point.ids[1], t).tavg)
        /\ HasRow(point.ids[2], t) /\ ~IsNaN(RowOf(point.ids[2], t).tavg)
    /\ \E t \in 1..MaxDay :
        /\ HasRow(point.ids[1], t) /\ IsNaN(RowOf(point.ids[1], t).tavg)
        /\ HasRow(point.ids[2], t) /\ ~IsNaN(RowOf(point.ids[2], t).tavg)

\* C6  Every numeric field of every row _resolve_point leaves is rounded to
\* one decimal place, whatever the method and adapt_temp.
C6_OutputRounded ==
    (Resolved /\ AllKnown) =>
        \A i \in 1..Len(_data.rows) :
            \A c \in Range(Types) :
                _data.rows[i][c] = Round1(_data.rows[i][c])

\* C7  A station with rows but without an entry in the stations frame makes
\* the resolution fail; it never completes.
C7_MissingMetadataFails ==
    (point.called /\ Len(point.ids) > 0 /\ Size(unresolved) > 0 /\ ~AllKnown) =>
        pc # "resolved"

\* C9  Temperature correction: with adapt_temp, before the aggregation, every
\* tavg, tmin and tmax of a row of station s is T + (2/3) * ((E_s - alt) / 100),
\* a missing temperature stays missing and no other field changes; without
\* adapt_temp nothing changes.  A station at 500 m, a point at 100 m and
\* tavg = 10.0 give 12.7 in the resolved series.
C9_TemperatureCorrection ==
    Resolved =>
        /\ Len(adjusted.rows) = Len(unresolved.rows)
        /\ \A i \in 1..Len(unresolved.rows) :
            LET r == unresolved.rows[i]
                a == adjusted.rows[i]
            IN  /\ a.station = r.station /\ a.time = r.time
                /\ \A c \in Range(Types) \ Temps : a[c] = r[c]
                /\ \A c \in Temps :
                    IF ~point.adapt_temp THEN a[c] = r[c]
                    ELSE IF IsNaN(r[c]) THEN IsNaN(a[c])
                    ELSE r.station \in DOMAIN point.stations =>
                             a[c] = Shifted(r[c], r.station)
                /\ (/\ point.adapt_temp
                    /\ point.ids = <<r.station>>
                    /\ r.station \in DOMAIN point.stations
                    /\ ElevationOf(r.station) = 500
                    /\ point.alt = 100
                    /\ r.tavg = Val(1000)) =>
                        \E j \in 1..Len(_data.rows) :
                            /\ _data.rows[j].time = r.time
                            /\ _data.rows[j].tavg = Val(1270)

\* A correction of the station at 500 m for a point at 100 m, on a table
\* that holds tavg = 10.0 and a missing tavg.
C9_Witness ==
    /\ Resolved
    /\ point.adapt_temp
    /\ point.alt = 100
    /\ Len(point.ids) = 1
    /\ point.ids[1] \in DOMAIN point.stations
    /\ ElevationOf(point.ids[1]) = 500
    /\ \E i \in 1..Len(unresolved.rows) : unresolved.rows[i].tavg = Val(1000)
    /\ \E i \in 1..Len(unresolved.rows) : IsNaN(unresolved.rows[i].tavg)

\* C10  Empty inputs: an object built for no station calls _load for none and
\* holds a table with the 10 variable columns and no rows; _resolve_point on
\* a state without stations or without rows changes neither the table nor
\* the stations.
C10_EmptyInputs ==
    /\ (pc = "loaded" /\ Len(_stations) = 0) =>
           /\ \A s \in Stations : ~log[s].ran
           /\ Len(_data.columns) = 10
           /\ _data.columns = <<"tavg", "tmin", "tmax", "prcp", "snow",
                                "wdir", "wspd", "wpgt", "pres", "tsun">>
           /\ Len(_data.rows) = 0
    /\ (pc = "resolved" /\ (Len(point.ids) = 0 \/ Size(unresolved) = 0)) =>
           /\ _data = unresolved
           /\ _stations = point.ids
           /\ Len(_data.columns) = 10
           /\ Len(_data.rows) = 0

\* _resolve_point has run on an object built for no station.
C10_Witness ==
    /\ pc = "resolved"
    /\ point.called
    /\ Len(point.ids) = 0
    /\ \A s \in Stations : ~log[s].ran

====
